---- MODULE Spec2Model ----
(***************************************************************************)
(* getstats.py: a time-series metrics plugin.  One process holds a sqlite  *)
(* connection shared by the request-serving main thread (init, getstats,   *)
(* gettimeseries, the event hooks) and one background scheduler thread     *)
(* (job every 15 minutes).  The model keeps the durable database apart     *)
(* from the connection's view of it, so that commits, the transaction      *)
(* opened implicitly by an INSERT and a process exit are observable.       *)
(***************************************************************************)
EXTENDS Integers, Sequences, FiniteSets, TLC

\* ------------------------------------------------------------------ bounds
\* gauges of job() that are modelled (the first NumGauges of GaugeNames)
NumGauges == 2
\* event hooks that are modelled (the first NumEvents of EventNames)
NumEvents == 1
\* the clock stops advancing at MaxTime (bounds restarts plus scheduled cycles)
MaxTime == 2
\* a counter is not incremented beyond MaxCount within the buffer
MaxCount == 2
\* values the external fetch of job() can report are 1..MaxFetch
MaxFetch == 1
\* values a direct caller of ts_variable passes are 1..MaxValue
MaxValue == 2
\* a direct caller makes at most MaxCalls accumulate calls per window
MaxCalls == 2
\* later code versions append up to MaxExtra migrations to the list
MaxExtra == 2
\* clock ticks per second: where the fractional part of a timestamp wraps
UsecPerSec == 2

\* --------------------------------------------------------------- constants
TS_VARIABLE == 1
TS_EVENT == 2

\* the names job() passes to ts_variable, in call order
GaugeNames ==
    << "getinfo_num_peers", "getinfo_num_pending_channels",
       "getinfo_num_active_channels", "getinfo_num_inactive_channels",
       "getinfo_fees_collected_msat", "summary_num_utxos", "summary_utxo_amount",
       "summary_num_channels", "summary_num_connected", "summary_num_gossipers",
       "summary_avail_total", "summary_avail_out", "summary_avail_in" >>

\* the names the hooks and the subscription pass to ts_event
EventNames == << "forward_event", "db_write", "htlc_accepted" >>

Gauges == { GaugeNames[i] : i \in 1..NumGauges }
Events == { EventNames[i] : i \in 1..NumEvents }
Names == Gauges \cup Events
\* a name no code path registers, for the queries
UnknownName == "unknown_metric"

\* ----------------------------------------------------------- python values
PyStr(s) == [type |-> "str", str |-> s, items |-> <<>>]
PyTuple(items) == [type |-> "tuple", str |-> "", items |-> items]
PyInt == [type |-> "int", str |-> "", items |-> <<>>]

\* the migration list of the source
migrations ==
    << PyStr("CREATE TABLE timeseries"),
       PyStr("CREATE TABLE data"),
       PyStr("CREATE INDEX idx_data_id"),
       PyStr("CREATE INDEX idx_data_ts"),
       PyStr("CREATE INDEX idx_data_idts") >>

\* statements a later code version appends, given as (statement, ) tuples
ExtStatements == << "CREATE TABLE ext1", "CREATE TABLE ext2", "CREATE TABLE ext3" >>

\* entries setup_db rejects: not a tuple, an empty tuple, a tuple not led by a str
MalformedEntries == { PyInt, PyTuple(<<>>), PyTuple(<<PyInt>>) }

\* the list of a code version with k appended migrations, the bad-th of them
\* (0: none) replaced by the malformed entry m
CodeList(k, bad, m) ==
    migrations \o [i \in 1..k |-> IF i = bad THEN m
                                  ELSE PyTuple(<<PyStr(ExtStatements[i])>>)]

MigrationLists ==
    { CodeList(k, 0, PyInt) : k \in 0..MaxExtra }
    \cup { CodeList(k, bad, m) : k \in 1..MaxExtra, bad \in 1..MaxExtra,
                                 m \in MalformedEntries }

\* ------------------------------------------------------------------- time
\* a datetime of the clock value t (naive local time, microsecond resolution)
DateTime(t) == [sec |-> t \div UsecPerSec, usec |-> t % UsecPerSec]

\* characters are their codes; text is a sequence of characters
Digit(d) == 48 + d
Dot == 46

\* sqlite3's default adapter, datetime.isoformat(" "): fixed-width fields and
\* the fraction only when it is not zero
Adapt(dt) ==
    << Digit(dt.sec \div 10), Digit(dt.sec % 10) >>
    \o (IF dt.usec = 0 THEN <<>> ELSE << Dot, Digit(dt.usec) >>)

\* datetime.fromisoformat on a well-formed string, with or without fraction
FromIsoformat(text) ==
    [sec |-> (text[1] - 48) * 10 + (text[2] - 48),
     usec |-> IF Len(text) > 2 THEN text[4] - 48 ELSE 0]

RECURSIVE TextLess(_, _)
\* sqlite's BINARY collation: bytewise, a proper prefix sorts first
TextLess(a, b) ==
    IF b = <<>> THEN FALSE
    ELSE IF a = <<>> THEN TRUE
    ELSE IF Head(a) # Head(b) THEN Head(a) < Head(b)
    ELSE TextLess(Tail(a), Tail(b))

\* the comparison with exclusive bounds
TextLeqStrict(a, b) == TextLess(a, b)

TextLeq(a, b) == a = b \/ TextLess(a, b)

\* ---------------------------------------------------------------- database
\* schema: the objects created; migrations, timeseries: sets of rows;
\* data: rows in insertion order (the table has no key, duplicates are kept)
EmptyDb == [schema |-> {}, migrations |-> {}, timeseries |-> {}, data |-> <<>>]

MigrationsTable == "CREATE TABLE migrations"

SetMax(S) == IF S = {} THEN 0 ELSE CHOOSE x \in S : \A y \in S : y <= x

\* SELECT max(id) FROM migrations, None read as 0
MaxMigrationId(db) == SetMax({ r.id : r \in db.migrations })

\* an INTEGER PRIMARY KEY left out of an INSERT is the largest rowid plus one
NextRowId(rows) == SetMax({ r.id : r \in rows }) + 1

\* rows of a table in the form the statements of the source read and write them
MigrationRecord(id, at) == [id |-> id, ts |-> at]
Metric(id, name, ts_type) == [id |-> id, name |-> name, ts_type |-> ts_type]
DataPoint(at, id, value) == [ts |-> at, tsi |-> id, value |-> value]

\* a CREATE INDEX needs its table; every other statement needs nothing
Requires(stmt) ==
    IF stmt \in { "CREATE INDEX idx_data_id", "CREATE INDEX idx_data_ts",
                  "CREATE INDEX idx_data_idts" }
    THEN { "CREATE TABLE data" } ELSE {}

\* ------------------------------------------------------------------- state
VARIABLES
    disk,         \* the database file: what survives the process
    conn,         \* plugin.db: open, in_transaction and the connection's view
    migs,         \* the migration list of the code version that is running
    mainPc,       \* where the main thread is (plugin.run dispatches serially)
    old_ver,      \* setup_db: the version read from the migrations table
    mig_i,        \* setup_db: i, the number of loop iterations begun
    exitError,    \* the exception init() ended with, "none" otherwise
    initialized,  \* plugin.initialized
    count,        \* plugin.count
    tsi,          \* plugin.tsi: name -> id
    tst,          \* plugin.tst: name -> ts_type
    sample,       \* the sample dict, entries in insertion order
    schedPc,      \* where the scheduler thread is
    armed,        \* schedule holds the recurring job
    job_i,        \* job: the next ts_variable call
    ts,           \* store_sample: ts
    iter,         \* the dict iterator of store_sample / reset_sample
    ev,           \* ts_event: name and the value read by sample.get
    clock,        \* the wall clock, in ticks
    reply,        \* the response to the request the main thread handled last
    execLog,      \* history: the statements setup_db passed to execute, ever
    atStart,      \* history: the clock, execLog length and rows when the process began
    resolve,      \* per executor, the ensure_tsi call it is inside (SpecReg)
    accepted,     \* history: increments ts_event has stored, per name, this process
    flushes,      \* history: ts and buffer keys of every store_sample begun
    issued,       \* history: the identifiers ensure_tsi returned, per name
    touched,      \* history: names written since reset_sample last zeroed them
    window        \* history: per name, the accumulation since the last reset

dbVars == << disk, conn >>
setupVars == << migs, old_ver, mig_i, exitError >>
engineVars == << initialized, count, tsi, tst, sample >>
schedVars == << schedPc, armed, job_i, ts, iter >>
\* the history variables, and resolve, which only the actions of SpecReg change
histVars == << execLog, atStart, resolve, accepted, flushes, issued, touched, window >>
vars == << dbVars, setupVars, engineVars, schedVars, histVars, mainPc, ev, clock,
          reply >>

ClosedConn == [open |-> FALSE, inTx |-> FALSE, db |-> EmptyDb]
PyNone == [type |-> "None", text |-> <<>>]
PyText(text) == [type |-> "str", text |-> text]
NoReply == [op |-> "none", status |-> "none", name |-> "", tsfrom |-> PyNone,
            tsto |-> PyNone, rows |-> <<>>]
NoEvent == [name |-> "", read |-> 0]
NoIter == [pos |-> 0, used |-> 0]
\* the two threads of the process
Executors == { "main", "sched" }
NoCall == [pc |-> "idle", name |-> "", ts_type |-> 0, stored |-> 0, err |-> "none",
           id |-> 0]
NoCalls == [c \in Executors |-> NoCall]
NoWindow == [n \in Names |-> [incs |-> 0, sets |-> 0, last |-> 0]]

\* the module-level state of a fresh process (lines 23-45)
FreshProcess ==
    /\ conn' = ClosedConn
    /\ initialized' = FALSE
    /\ count' = 0
    /\ tsi' = <<>>
    /\ tst' = <<>>
    /\ sample' = <<>>
    /\ schedPc' = "none"
    /\ armed' = FALSE
    /\ job_i' = 0
    /\ ts' = DateTime(0)
    /\ iter' = NoIter
    /\ ev' = NoEvent
    /\ old_ver' = 0
    /\ mig_i' = 0
    /\ reply' = NoReply
    /\ touched' = {}
    /\ window' = NoWindow
    /\ resolve' = NoCalls
    /\ accepted' = [n \in Names |-> 0]

Init ==
    /\ disk = EmptyDb
    /\ conn = ClosedConn
    /\ migs = migrations
    /\ mainPc = "down"
    /\ old_ver = 0
    /\ mig_i = 0
    /\ exitError = "none"
    /\ initialized = FALSE
    /\ count = 0
    /\ tsi = <<>>
    /\ tst = <<>>
    /\ sample = <<>>
    /\ schedPc = "none"
    /\ armed = FALSE
    /\ job_i = 0
    /\ ts = DateTime(0)
    /\ iter = NoIter
    /\ ev = NoEvent
    /\ clock = 0
    /\ reply = NoReply
    /\ execLog = <<>>
    /\ atStart = [clock |-> 0, log |-> 0, records |-> {}, data |-> 0]
    /\ accepted = [n \in Names |-> 0]
    /\ resolve = NoCalls
    /\ flushes = {}
    /\ issued = [n \in Names |-> {}]
    /\ touched = {}
    /\ window = NoWindow

\* --------------------------------------------------------- process lifecycle
\* the plugin process is started with the code version whose list is `list`
StartProcess(list) ==
    /\ mainPc = "down"
    /\ clock < MaxTime
    /\ clock' = clock + 1
    /\ migs' = list
    /\ mainPc' = "boot"
    /\ exitError' = "none"
    /\ atStart' = [clock |-> clock + 1, log |-> Len(execLog),
                   records |-> disk.migrations, data |-> Len(disk.data)]
    /\ FreshProcess
    /\ UNCHANGED << disk, execLog, flushes, issued >>

\* the code of the source is started
Start == StartProcess(migrations)

\* any of the code versions is started
StartVersion == \E list \in MigrationLists : StartProcess(list)

\* the process ends (killed, or stopped by the host after init failed): the
\* connection closes without a commit and all memory is lost
Crash ==
    /\ mainPc # "down"
    /\ mainPc' = "down"
    /\ FreshProcess
    /\ UNCHANGED << disk, migs, exitError, clock, execLog, atStart, flushes, issued >>

\* ------------------------------------------------------------------ setup_db
\* init() is called and enters setup_db
InitCall ==
    /\ mainPc = "boot"
    /\ mainPc' = "setup_open"
    /\ reply' = NoReply
    /\ UNCHANGED << dbVars, setupVars, engineVars, schedVars, histVars, ev, clock >>

\* lines 140-149: connect; create the migrations table when it is missing
\* (DDL outside a transaction takes effect at once) and commit
SetupDbOpen ==
    /\ mainPc = "setup_open"
    /\ LET db == [disk EXCEPT !.schema = @ \cup { MigrationsTable }]
       IN /\ disk' = db
          /\ conn' = [open |-> TRUE, inTx |-> FALSE, db |-> db]
    /\ mainPc' = "setup_version"
    /\ UNCHANGED << setupVars, engineVars, schedVars, histVars, ev, clock, reply >>

\* lines 151-154 without the comparison of line 153
SetupDbVersionUnchecked ==
    /\ mainPc = "setup_version"
    /\ old_ver' = MaxMigrationId(conn.db)
    /\ mainPc' = "setup_migrate"
    /\ mig_i' = 0
    /\ UNCHANGED << dbVars, migs, exitError, engineVars, schedVars, histVars, ev, clock,
                    reply >>

\* lines 151-154: read the version; a version above the list length is fatal
\* (Exception 'Database has newer state than expected', named SchemaTooNew)
SetupDbVersion ==
    /\ mainPc = "setup_version"
    /\ LET ver == MaxMigrationId(conn.db)
       IN /\ old_ver' = ver
          /\ IF ver > Len(migs)
             THEN /\ mainPc' = "failed"
                  /\ exitError' = "SchemaTooNew"
             ELSE /\ mainPc' = "setup_migrate"
                  /\ exitError' = exitError
    /\ mig_i' = 0
    /\ UNCHANGED << dbVars, migs, engineVars, schedVars, histVars, ev, clock, reply >>

\* lines 160-161: a bare statement becomes a one-element tuple
Normalize(migration) ==
    IF migration.type = "str" THEN PyTuple(<< migration >>) ELSE migration

\* line 162, negated
WellFormed(migration) ==
    /\ migration.type = "tuple"
    /\ Len(migration.items) >= 1
    /\ migration.items[1].type = "str"

\* line 166 against the connection: can sqlite execute the statement?
Executable(stmt) ==
    /\ stmt \notin conn.db.schema
    /\ Requires(stmt) \subseteq conn.db.schema

\* the loop of setup_db passing over an entry it cannot use
SetupDbMigrateSkip ==
    /\ mainPc = "setup_migrate"
    /\ old_ver + mig_i < Len(migs)
    /\ mig_i' = mig_i + 1
    /\ LET migration == Normalize(migs[old_ver + mig_i + 1])
       IN IF ~WellFormed(migration)
          THEN UNCHANGED << mainPc, exitError, dbVars, execLog >>
          ELSE LET stmt == migration.items[1].str
               IN /\ execLog' = Append(execLog, stmt)
                  /\ IF ~Executable(stmt)
                     THEN /\ mainPc' = "failed"
                          /\ exitError' = "OperationalError"
                          /\ UNCHANGED dbVars
                     ELSE \* the DDL is not covered by a transaction unless an
                          \* earlier INSERT of this run opened one; the INSERT
                          \* of the record opens one
                          /\ disk' = IF conn.inTx THEN disk
                                     ELSE [disk EXCEPT !.schema = @ \cup { stmt }]
                          /\ conn' = [conn EXCEPT
                                !.inTx = TRUE,
                                !.db.schema = @ \cup { stmt },
                                !.db.migrations = @ \cup
                                    { MigrationRecord(NextRowId(@),
                                                      Adapt(DateTime(clock))) }]
                          /\ UNCHANGED << mainPc, exitError >>
    /\ UNCHANGED << migs, old_ver, engineVars, schedVars, ev, clock, reply,
                    atStart, resolve, accepted, flushes, issued, touched, window >>

\* lines 158-167, one iteration of the loop over migrations[old_ver:]
\* (ValueError 'Invalid migration' is named InvalidMigration)
SetupDbMigrate ==
    /\ mainPc = "setup_migrate"
    /\ old_ver + mig_i < Len(migs)
    /\ mig_i' = mig_i + 1
    /\ LET migration == Normalize(migs[old_ver + mig_i + 1])
       IN IF ~WellFormed(migration)
          THEN /\ mainPc' = "failed"
               /\ exitError' = "InvalidMigration"
               /\ UNCHANGED << dbVars, execLog >>
          ELSE LET stmt == migration.items[1].str
               IN /\ execLog' = Append(execLog, stmt)
                  /\ IF ~Executable(stmt)
                     THEN /\ mainPc' = "failed"
                          /\ exitError' = "OperationalError"
                          /\ UNCHANGED dbVars
                     ELSE \* the DDL is not covered by a transaction unless an
                          \* earlier INSERT of this run opened one; the INSERT
                          \* of the record opens one
                          /\ disk' = IF conn.inTx THEN disk
                                     ELSE [disk EXCEPT !.schema = @ \cup { stmt }]
                          /\ conn' = [conn EXCEPT
                                !.inTx = TRUE,
                                !.db.schema = @ \cup { stmt },
                                !.db.migrations = @ \cup
                                    { MigrationRecord(NextRowId(@),
                                                      Adapt(DateTime(clock))) }]
                          /\ UNCHANGED << mainPc, exitError >>
    /\ UNCHANGED << migs, old_ver, engineVars, schedVars, ev, clock, reply,
                    atStart, resolve, accepted, flushes, issued, touched, window >>

\* lines 170-172: the loop is exhausted; read the new version, log, commit
SetupDbCommit ==
    /\ mainPc = "setup_migrate"
    /\ old_ver + mig_i >= Len(migs)
    /\ disk' = conn.db
    /\ conn' = [conn EXCEPT !.inTx = FALSE]
    /\ mainPc' = "init_thread"
    /\ UNCHANGED << setupVars, engineVars, schedVars, histVars, ev, clock, reply >>

\* --------------------------------------------------------- metric registry
SelectByNameAndType(db, name, ts_type) ==
    { r \in db.timeseries : r.name = name /\ r.ts_type = ts_type }

SelectByName(db, name) == { r \in db.timeseries : r.name = name }

\* lines 67-68, 75-76, 88-89: the cache after it took the row in
Cached(cache, name, value) == (name :> value) @@ cache

\* ensure_tsi caching the second column of the row where the id belongs
EnsureTsiSwapped(name, ts_type) ==
    IF name \in DOMAIN tsi
    THEN [err |-> "none", id |-> tsi[name], tsi |-> tsi, tst |-> tst,
          conn |-> conn, disk |-> disk]
    ELSE LET found == SelectByNameAndType(conn.db, name, ts_type)
         IN IF found # {}
            THEN LET row == CHOOSE r \in found : TRUE
                 IN [err |-> "none", id |-> row.id,
                     tsi |-> Cached(tsi, name, row.ts_type),
                     tst |-> Cached(tst, name, row.ts_type),
                     conn |-> conn, disk |-> disk]
            ELSE IF SelectByName(conn.db, name) # {}
            THEN [err |-> "IntegrityError", id |-> 0, tsi |-> tsi, tst |-> tst,
                  conn |-> [conn EXCEPT !.inTx = TRUE], disk |-> disk]
            ELSE LET row == Metric(NextRowId(conn.db.timeseries), name, ts_type)
                     db == [conn.db EXCEPT !.timeseries = @ \cup { row }]
                 IN [err |-> "none", id |-> row.id,
                     tsi |-> Cached(tsi, name, row.ts_type),
                     tst |-> Cached(tst, name, row.ts_type),
                     conn |-> [conn EXCEPT !.db = db, !.inTx = FALSE],
                     disk |-> db]

\* ensure_tsi (lines 58-77): what it returns and what it leaves behind
EnsureTsi(name, ts_type) ==
    IF name \in DOMAIN tsi
    THEN [err |-> "none", id |-> tsi[name], tsi |-> tsi, tst |-> tst,
          conn |-> conn, disk |-> disk]
    ELSE LET found == SelectByNameAndType(conn.db, name, ts_type)
         IN IF found # {}
            THEN LET row == CHOOSE r \in found : TRUE
                 IN [err |-> "none", id |-> row.id,
                     tsi |-> Cached(tsi, name, row.id),
                     tst |-> Cached(tst, name, row.ts_type),
                     conn |-> conn, disk |-> disk]
            ELSE IF SelectByName(conn.db, name) # {}
            THEN \* name is UNIQUE: the INSERT fails inside the transaction it opened
                 [err |-> "IntegrityError", id |-> 0, tsi |-> tsi, tst |-> tst,
                  conn |-> [conn EXCEPT !.inTx = TRUE], disk |-> disk]
            ELSE LET row == Metric(NextRowId(conn.db.timeseries), name, ts_type)
                     db == [conn.db EXCEPT !.timeseries = @ \cup { row }]
                 IN \* INSERT, then commit: everything pending on the connection
                    \* becomes durable with the row
                    [err |-> "none", id |-> row.id,
                     tsi |-> Cached(tsi, name, row.id),
                     tst |-> Cached(tst, name, row.ts_type),
                     conn |-> [conn EXCEPT !.db = db, !.inTx = FALSE],
                     disk |-> db]

\* get_tsi that remembers the name it did not find
GetTsiCaching(name) ==
    IF name \in DOMAIN tsi
    THEN [err |-> "none", id |-> tsi[name], tsi |-> tsi, tst |-> tst]
    ELSE LET found == SelectByName(conn.db, name)
         IN IF found = {}
            THEN [err |-> "UnknownMetric", id |-> 0, tsi |-> Cached(tsi, name, 0),
                  tst |-> tst]
            ELSE LET row == CHOOSE r \in found : TRUE
                 IN [err |-> "none", id |-> row.id,
                     tsi |-> Cached(tsi, name, row.id),
                     tst |-> Cached(tst, name, row.ts_type)]

\* get_tsi (lines 80-90); ValueError 'unknown timeseries' is named UnknownMetric
GetTsi(name) ==
    IF name \in DOMAIN tsi
    THEN [err |-> "none", id |-> tsi[name], tsi |-> tsi, tst |-> tst]
    ELSE LET found == SelectByName(conn.db, name)
         IN IF found = {}
            THEN [err |-> "UnknownMetric", id |-> 0, tsi |-> tsi, tst |-> tst]
            ELSE LET row == CHOOSE r \in found : TRUE
                 IN [err |-> "none", id |-> row.id,
                     tsi |-> Cached(tsi, name, row.id),
                     tst |-> Cached(tst, name, row.ts_type)]

\* ------------------------------------------------------- sample accumulator
Keys(s) == { s[i].name : i \in 1..Len(s) }

\* sample.get(name, default)
Get(s, name, default) ==
    IF name \in Keys(s)
    THEN (CHOOSE e \in { s[i] : i \in 1..Len(s) } : e.name = name).value
    ELSE default

\* sample.setdefault(name, value): an existing key keeps its value
PutOnce(s, name, value) ==
    IF name \in Keys(s) THEN s ELSE Append(s, [name |-> name, value |-> value])

\* sample[name] = value: a new key goes to the end of the dict
Put(s, name, value) ==
    IF name \in Keys(s)
    THEN [i \in 1..Len(s) |-> IF s[i].name = name
                              THEN [name |-> name, value |-> value] ELSE s[i]]
    ELSE Append(s, [name |-> name, value |-> value])

\* history: ensure_tsi returned id for name
Issue(name, id) == [issued EXCEPT ![name] = @ \cup { id }]

\* ts_variable without the call of line 95
TsVariableBare(name, value) ==
    /\ sample' = Put(sample, name, value)
    /\ touched' = touched \cup { name }
    /\ window' = [window EXCEPT ![name].last = value, ![name].sets = @ + 1]
    /\ UNCHANGED << dbVars, tsi, tst, issued, schedPc >>

\* ts_variable (lines 93-98) on the scheduler thread; an exception of
\* ensure_tsi ends the thread
TsVariable(name, value) ==
    LET e == EnsureTsi(name, TS_VARIABLE)
    IN /\ conn' = e.conn
       /\ disk' = e.disk
       /\ tsi' = e.tsi
       /\ tst' = e.tst
       /\ IF e.err # "none"
          THEN /\ schedPc' = "dead"
               /\ UNCHANGED << sample, issued, touched, window >>
          ELSE /\ sample' = Put(sample, name, value)
               /\ issued' = Issue(name, e.id)
               /\ touched' = touched \cup { name }
               /\ window' = [window EXCEPT ![name].last = value, ![name].sets = @ + 1]
               /\ UNCHANGED schedPc

\* ------------------------------------------------------------ scheduler thread
\* init, lines 311-312: the scheduler thread is started
InitStartThread ==
    /\ mainPc = "init_thread"
    /\ mainPc' = "init_flag"
    /\ schedPc' = "wait"
    /\ UNCHANGED << dbVars, setupVars, engineVars, armed, job_i, ts, iter, histVars,
                    ev, clock, reply >>

\* init, line 313
InitSetInitialized ==
    /\ mainPc = "init_flag"
    /\ mainPc' = "idle"
    /\ initialized' = TRUE
    /\ UNCHANGED << dbVars, setupVars, count, tsi, tst, sample, schedVars, histVars,
                    ev, clock, reply >>

\* scheduler without the wait of line 235
WaitInitializedNoWait ==
    /\ schedPc = "wait"
    /\ schedPc' = "job"
    /\ UNCHANGED << dbVars, setupVars, engineVars, armed, job_i, ts, iter, histVars,
                    mainPc, ev, clock, reply >>

\* wait_initialized (lines 53-55, 235) returns; job is called (line 237)
WaitInitialized ==
    /\ schedPc = "wait"
    /\ initialized
    /\ schedPc' = "job"
    /\ UNCHANGED << dbVars, setupVars, engineVars, armed, job_i, ts, iter, histVars,
                    mainPc, ev, clock, reply >>

\* job, lines 177-211: count, then the three rpc calls, any of which may raise;
\* nothing catches it, so the exception ends the thread
JobFetch ==
    /\ schedPc = "job"
    /\ count' = count + 1
    /\ \E ok \in BOOLEAN :
          schedPc' = IF ok THEN "vars" ELSE "dead"
    /\ job_i' = 1
    /\ UNCHANGED << dbVars, setupVars, initialized, tsi, tst, sample, armed, ts, iter,
                    histVars, mainPc, ev, clock, reply >>

\* job, lines 213-226: the next ts_variable call, with a fetched value
JobTsVariable ==
    /\ schedPc = "vars"
    /\ job_i <= NumGauges
    /\ \E value \in 1..MaxFetch : TsVariable(GaugeNames[job_i], value)
    /\ job_i' = job_i + 1
    /\ UNCHANGED << setupVars, initialized, count, armed, ts, iter, execLog, atStart, resolve, accepted, flushes,
                    mainPc, ev, clock, reply >>

\* store_sample with an iteration that leaves out the first entry
StoreSampleEnterSkip ==
    /\ schedPc' = "store"
    /\ ts' = DateTime(clock)
    /\ iter' = [pos |-> 1, used |-> Len(sample)]
    /\ flushes' = flushes \cup { [ts |-> Adapt(DateTime(clock)), keys |-> Keys(sample),
                                  base |-> Len(conn.db.data)] }
    /\ UNCHANGED << dbVars, setupVars, engineVars, armed, job_i, execLog, atStart, resolve, accepted, issued,
                    touched, window, mainPc, ev, clock, reply >>

\* store_sample, lines 111-112: ts is taken and the iteration over sample begins
StoreSampleEnter ==
    /\ schedPc' = "store"
    /\ ts' = DateTime(clock)
    /\ iter' = [pos |-> 0, used |-> Len(sample)]
    /\ flushes' = flushes \cup { [ts |-> Adapt(DateTime(clock)), keys |-> Keys(sample),
                                  base |-> Len(conn.db.data)] }
    /\ UNCHANGED << dbVars, setupVars, engineVars, armed, job_i, execLog, atStart, resolve, accepted, issued,
                    touched, window, mainPc, ev, clock, reply >>

\* job, line 228
StoreSampleBegin ==
    /\ schedPc = "vars"
    /\ job_i > NumGauges
    /\ StoreSampleEnter

\* store_sample, lines 112-115: one step of the loop.  The iterator raises when
\* the dict changed size; otherwise the next entry is inserted, or the loop ends
StoreSampleNext ==
    /\ schedPc = "store"
    /\ IF Len(sample) # iter.used
       THEN /\ schedPc' = "dead"
            /\ UNCHANGED << dbVars, tsi, tst, iter >>
       ELSE IF iter.pos >= Len(sample)
       THEN /\ schedPc' = "reset_begin"
            /\ UNCHANGED << dbVars, tsi, tst, iter >>
       ELSE LET entry == sample[iter.pos + 1]
                g == GetTsi(entry.name)
            IN /\ tsi' = g.tsi
               /\ tst' = g.tst
               /\ iter' = [iter EXCEPT !.pos = @ + 1]
               /\ disk' = disk
               /\ IF g.err # "none"
                  THEN /\ schedPc' = "dead"
                       /\ conn' = conn
                  ELSE /\ schedPc' = schedPc
                       /\ conn' = [conn EXCEPT
                             !.inTx = TRUE,
                             !.db.data = Append(@, DataPoint(Adapt(ts), g.id,
                                                             entry.value))]
    /\ UNCHANGED << setupVars, initialized, count, sample, armed, job_i, ts, histVars,
                    mainPc, ev, clock, reply >>

\* reset_sample, line 120: the iteration over sample begins
ResetSampleBegin ==
    /\ schedPc = "reset_begin"
    /\ schedPc' = "reset"
    /\ iter' = [pos |-> 0, used |-> Len(sample)]
    /\ UNCHANGED << dbVars, setupVars, engineVars, armed, job_i, ts, histVars,
                    mainPc, ev, clock, reply >>

\* reset_sample with a loop body that assigns nothing
ResetSampleNextKeep ==
    /\ schedPc = "reset"
    /\ IF Len(sample) # iter.used
       THEN /\ schedPc' = "dead"
            /\ UNCHANGED << iter, touched, window >>
       ELSE IF iter.pos >= Len(sample)
       THEN /\ schedPc' = "commit"
            /\ UNCHANGED << iter, touched, window >>
       ELSE LET key == sample[iter.pos + 1].name
            IN /\ iter' = [iter EXCEPT !.pos = @ + 1]
               /\ touched' = touched \ { key }
               /\ window' = [window EXCEPT ![key] = [incs |-> 0, sets |-> 0, last |-> 0]]
               /\ schedPc' = schedPc
    /\ UNCHANGED << dbVars, setupVars, engineVars, armed, job_i, ts,
                    execLog, atStart, resolve, accepted, flushes, issued, mainPc, ev, clock, reply >>

\* reset_sample, lines 120-121: one step of the loop
ResetSampleNext ==
    /\ schedPc = "reset"
    /\ IF Len(sample) # iter.used
       THEN /\ schedPc' = "dead"
            /\ UNCHANGED << sample, iter, touched, window >>
       ELSE IF iter.pos >= Len(sample)
       THEN /\ schedPc' = "commit"
            /\ UNCHANGED << sample, iter, touched, window >>
       ELSE LET key == sample[iter.pos + 1].name
            IN /\ sample' = Put(sample, key, 0)
               /\ iter' = [iter EXCEPT !.pos = @ + 1]
               /\ touched' = touched \ { key }
               /\ window' = [window EXCEPT ![key] = [incs |-> 0, sets |-> 0, last |-> 0]]
               /\ schedPc' = schedPc
    /\ UNCHANGED << dbVars, setupVars, initialized, count, tsi, tst, armed, job_i, ts,
                    execLog, atStart, resolve, accepted, flushes, issued, mainPc, ev, clock, reply >>

\* job, line 230; then back in scheduler, which arms the schedule after the
\* first job or goes on sleeping in its loop
JobCommit ==
    /\ schedPc = "commit"
    /\ disk' = conn.db
    /\ conn' = [conn EXCEPT !.inTx = FALSE]
    /\ schedPc' = IF armed THEN "sleep" ELSE "arm"
    /\ UNCHANGED << setupVars, engineVars, armed, job_i, ts, iter, histVars,
                    mainPc, ev, clock, reply >>

\* scheduler, line 239
ScheduleEvery ==
    /\ schedPc = "arm"
    /\ armed' = TRUE
    /\ schedPc' = "sleep"
    /\ UNCHANGED << dbVars, setupVars, engineVars, job_i, ts, iter, histVars,
                    mainPc, ev, clock, reply >>

\* scheduler, lines 240-242: the interval has passed and run_pending calls job
RunPending ==
    /\ schedPc = "sleep"
    /\ clock < MaxTime
    /\ clock' = clock + 1
    /\ schedPc' = "job"
    /\ UNCHANGED << dbVars, setupVars, engineVars, armed, job_i, ts, iter, histVars,
                    mainPc, ev, reply >>

\* ----------------------------------------------------------- request handlers
\* plugin.run serves a request only between init steps
Serving == mainPc \in { "boot", "failed", "idle" }

\* what a hook handler hands back to the host
EventReply(name, status) ==
    [op |-> "ts_event", status |-> status, name |-> name, tsfrom |-> PyNone,
     tsto |-> PyNone, rows |-> <<>>]

\* ts_event without the test of lines 103-104
TsEventUnguarded(name) ==
    /\ Serving
    /\ Get(sample, name, 0) < MaxCount
    /\ LET e == EnsureTsi(name, TS_EVENT)
       IN /\ conn' = e.conn
          /\ disk' = e.disk
          /\ tsi' = e.tsi
          /\ tst' = e.tst
          /\ IF e.err # "none"
             THEN /\ reply' = EventReply(name, e.err)
                  /\ UNCHANGED << issued, mainPc, ev >>
             ELSE /\ reply' = NoReply
                  /\ issued' = Issue(name, e.id)
                  /\ ev' = [name |-> name, read |-> Get(sample, name, 0)]
                  /\ mainPc' = IF initialized THEN "event_write" ELSE mainPc
    /\ UNCHANGED << setupVars, initialized, count, sample, schedVars, execLog, atStart, resolve, accepted,
                    flushes, touched, window, clock >>

\* ts_event (lines 101-106) up to the read of sample.get: ignored before
\* readiness; an exception of ensure_tsi is returned to the host
TsEvent(name) ==
    /\ Serving
    /\ Get(sample, name, 0) < MaxCount
    /\ IF ~initialized
       THEN /\ reply' = EventReply(name, "ok")
            /\ UNCHANGED << dbVars, tsi, tst, issued, mainPc, ev >>
       ELSE LET e == EnsureTsi(name, TS_EVENT)
            IN /\ conn' = e.conn
               /\ disk' = e.disk
               /\ tsi' = e.tsi
               /\ tst' = e.tst
               /\ IF e.err # "none"
                  THEN /\ reply' = EventReply(name, e.err)
                       /\ UNCHANGED << issued, mainPc, ev >>
                  ELSE /\ reply' = NoReply
                       /\ issued' = Issue(name, e.id)
                       /\ ev' = [name |-> name, read |-> Get(sample, name, 0)]
                       /\ mainPc' = "event_write"
    /\ UNCHANGED << setupVars, initialized, count, sample, schedVars, execLog, atStart, resolve, accepted,
                    flushes, touched, window, clock >>

\* ts_event, line 106: the store of the value read plus one
TsEventWrite ==
    /\ mainPc = "event_write"
    /\ sample' = Put(sample, ev.name, ev.read + 1)
    /\ touched' = touched \cup { ev.name }
    /\ window' = [window EXCEPT ![ev.name].incs = @ + 1]
    /\ reply' = EventReply(ev.name, "ok")
    /\ ev' = NoEvent
    /\ accepted' = [accepted EXCEPT ![ev.name] = @ + 1]
    /\ mainPc' = "idle"
    /\ UNCHANGED << dbVars, setupVars, initialized, count, tsi, tst, schedVars,
                    execLog, atStart, resolve, flushes, issued, clock >>

\* check_initialized that never raises
CheckInitializedOff == "none"

\* check_initialized (lines 48-50); the RpcError is named NotReady
CheckInitialized == IF initialized THEN "none" ELSE "NotReady"

\* get_data (lines 124-135): the rows the cursor yields, in table order
GetData(name, tsfrom, tsto) ==
    LET from == IF tsfrom.type = "None" THEN DateTime(0)
                ELSE FromIsoformat(tsfrom.text)
        to == IF tsto.type = "None" THEN DateTime(clock)
              ELSE FromIsoformat(tsto.text)
        g == GetTsi(name)
        Hit(r) == /\ r.tsi = g.id
                  /\ TextLeq(Adapt(from), r.ts)
                  /\ TextLeq(r.ts, Adapt(to))
    IN [err |-> g.err, tsi |-> g.tsi, tst |-> g.tst,
        rows |-> IF g.err = "none" THEN SelectSeq(conn.db.data, Hit) ELSE <<>>]

\* get_stats (lines 262-287)
GetStats(name, tsfrom, tsto) ==
    /\ Serving
    /\ IF CheckInitialized # "none"
       THEN /\ reply' = [op |-> "getstats", status |-> CheckInitialized, name |-> name,
                         tsfrom |-> tsfrom, tsto |-> tsto, rows |-> <<>>]
            /\ UNCHANGED << tsi, tst >>
       ELSE LET d == GetData(name, tsfrom, tsto)
            IN /\ reply' = [op |-> "getstats",
                            status |-> IF d.err = "none" THEN "ok" ELSE d.err,
                            name |-> name, tsfrom |-> tsfrom, tsto |-> tsto,
                            rows |-> d.rows]
               /\ tsi' = d.tsi
               /\ tst' = d.tst
    /\ UNCHANGED << dbVars, setupVars, initialized, count, sample, schedVars, histVars,
                    mainPc, ev, clock >>

\* get_timeseries (lines 290-303)
GetTimeseries ==
    /\ Serving
    /\ reply' = [op |-> "gettimeseries", status |-> IF CheckInitialized = "none"
                                                    THEN "ok" ELSE CheckInitialized,
                 name |-> "", tsfrom |-> PyNone, tsto |-> PyNone, rows |-> <<>>]
    /\ UNCHANGED << dbVars, setupVars, engineVars, schedVars, histVars, mainPc, ev,
                    clock >>

\* -------------------------------------------------------------- the program
Next ==
    \/ Start
    \/ Crash
    \/ InitCall
    \/ SetupDbOpen
    \/ SetupDbVersion
    \/ SetupDbMigrate
    \/ SetupDbCommit
    \/ InitStartThread
    \/ InitSetInitialized
    \/ WaitInitialized
    \/ JobFetch
    \/ JobTsVariable
    \/ StoreSampleBegin
    \/ StoreSampleNext
    \/ ResetSampleBegin
    \/ ResetSampleNext
    \/ JobCommit
    \/ ScheduleEvery
    \/ RunPending
    \/ \E name \in Events : TsEvent(name)
    \/ TsEventWrite
    \/ \E name \in { GaugeNames[1], UnknownName } : GetStats(name, PyNone, PyNone)
    \/ GetTimeseries

Spec == Init /\ [][Next]_vars

\* the program with a scheduler thread that is given the processor: the loop of
\* wait_initialized ends once the flag is set, and job is then entered
SpecFair == Spec /\ WF_vars(WaitInitialized) /\ WF_vars(JobFetch)

\* --------------------------------------------------- one caller at a time
\* The operations of the engine called one at a time by a single caller, in any
\* order: ts_variable with any name and value, ts_event, the flush of job
\* (lines 228-230), the queries with any bounds.  The caller stands in for
\* scheduler() on the thread init starts.

RECURSIVE SumOver(_, _)
SumOver(f, S) ==
    IF S = {} THEN 0
    ELSE LET x == CHOOSE y \in S : TRUE IN f[x] + SumOver(f, S \ { x })

\* accumulate calls made since the buffer was last reset
WindowCalls == SumOver([n \in Names |-> window[n].incs + window[n].sets], Names)

\* neither thread is inside an operation
Quiet == mainPc = "idle" /\ schedPc = "sleep" /\ reply = NoReply

\* texts a caller may pass as a bound: every instant of the clock's range as
\* isoformat writes it, and the whole seconds with an explicit zero fraction
QueryTexts ==
    { Adapt(DateTime(t)) : t \in 0..MaxTime }
    \cup { << Digit(sec \div 10), Digit(sec % 10), Dot, Digit(0) >> :
           sec \in 0..(MaxTime \div UsecPerSec) }

QueryBounds == { PyNone } \cup { PyText(text) : text \in QueryTexts }

\* the caller takes the place of scheduler() once wait_initialized returns
ApiAttach ==
    /\ schedPc = "wait"
    /\ initialized
    /\ schedPc' = "sleep"
    /\ armed' = TRUE
    /\ UNCHANGED << dbVars, setupVars, engineVars, job_i, ts, iter, histVars,
                    mainPc, ev, clock, reply >>

ApiTsVariable ==
    /\ Quiet
    /\ WindowCalls < MaxCalls
    /\ \E name \in Gauges, value \in 1..MaxValue : TsVariable(name, value)
    /\ UNCHANGED << setupVars, initialized, count, armed, job_i, ts, iter, execLog, atStart, resolve, accepted,
                    flushes, mainPc, ev, clock, reply >>

ApiTsEvent ==
    /\ schedPc \in { "none", "sleep" }
    /\ reply = NoReply
    /\ WindowCalls < MaxCalls
    /\ \E name \in Events : TsEvent(name)

ApiTsEventWrite ==
    /\ schedPc = "sleep"
    /\ TsEventWrite

\* time passes between two flushes
ApiSleep ==
    /\ Quiet
    /\ clock < MaxTime
    /\ clock' = clock + 1
    /\ UNCHANGED << dbVars, setupVars, engineVars, schedVars, histVars, mainPc, ev,
                    reply >>

\* store_sample is called, once per instant of the clock
ApiStoreSample ==
    /\ Quiet
    /\ \A f \in flushes : f.ts # Adapt(DateTime(clock))
    /\ StoreSampleEnter

\* the caller queries between two windows
ApiGetStats ==
    /\ schedPc \in { "none", "sleep" }
    /\ reply = NoReply
    /\ WindowCalls = 0
    /\ \E name \in Names \cup { UnknownName }, tsfrom \in QueryBounds,
          tsto \in QueryBounds : GetStats(name, tsfrom, tsto)

ApiGetTimeseries ==
    /\ schedPc \in { "none", "sleep" }
    /\ reply = NoReply
    /\ GetTimeseries

\* the caller has read the response
ApiReturn ==
    /\ reply # NoReply
    /\ reply' = NoReply
    /\ UNCHANGED << dbVars, setupVars, engineVars, schedVars, histVars, mainPc, ev,
                    clock >>

NextApi ==
    \/ Start
    \/ InitCall
    \/ SetupDbOpen
    \/ SetupDbVersion
    \/ SetupDbMigrate
    \/ SetupDbCommit
    \/ InitStartThread
    \/ InitSetInitialized
    \/ ApiAttach
    \/ ApiTsVariable
    \/ ApiTsEvent
    \/ ApiTsEventWrite
    \/ ApiSleep
    \/ ApiStoreSample
    \/ StoreSampleNext
    \/ ResetSampleBegin
    \/ ResetSampleNext
    \/ JobCommit
    \/ ApiGetStats
    \/ ApiGetTimeseries
    \/ ApiReturn

SpecApi == Init /\ [][NextApi]_vars

\* ---------------------------------------------- the migration manager alone
\* startups of setup_db under any of the code versions, each ended at any point
NextMig ==
    \/ StartVersion
    \/ InitCall
    \/ SetupDbOpen
    \/ SetupDbVersion
    \/ SetupDbMigrate
    \/ SetupDbCommit
    \/ Crash

SpecMig == Init /\ [][NextMig]_vars

\* ------------------------------------------------- the registry, two callers
\* ensure_tsi statement by statement, called by either thread with any name and
\* any kind; the two calls interleave on the shared cache and connection.

\* everything but the registry, the connection and the calls
RegFrame == << setupVars, initialized, count, sample, schedVars, mainPc, ev, clock,
               reply, execLog, atStart, accepted, flushes, touched, window >>

\* the names the callers pass: one the program uses as a gauge, one as a counter
RegNames == { GaugeNames[1], EventNames[1] }

\* the id of the row called name, 0 when there is none
StoredId(db, name) ==
    IF SelectByName(db, name) = {} THEN 0
    ELSE (CHOOSE r \in SelectByName(db, name) : TRUE).id

\* the call returns id or raises err
RegDone(c, err, id) ==
    [resolve EXCEPT ![c].pc = "done", ![c].err = err, ![c].id = id]

\* lines 58-61: the call begins; a cached name is returned at once
RegCall(c, name, ts_type) ==
    /\ initialized
    /\ schedPc = "sleep"
    /\ resolve[c].pc = "idle"
    /\ LET call == [NoCall EXCEPT !.name = name, !.ts_type = ts_type]
       IN resolve' = IF name \in DOMAIN tsi
                     THEN [resolve EXCEPT ![c] = [call EXCEPT !.pc = "done",
                                                              !.id = tsi[name]]]
                     ELSE [resolve EXCEPT ![c] = [call EXCEPT !.pc = "select"]]
    /\ UNCHANGED << RegFrame, dbVars, tsi, tst, issued >>

\* lines 63-69: the SELECT by name and type; a row found is cached and returned
RegSelect(c) ==
    /\ resolve[c].pc = "select"
    /\ LET name == resolve[c].name
           found == SelectByNameAndType(conn.db, name, resolve[c].ts_type)
           seen == [resolve EXCEPT ![c].stored = StoredId(conn.db, name)]
       IN IF found # {}
          THEN LET row == CHOOSE r \in found : TRUE
               IN /\ tsi' = Cached(tsi, name, row.id)
                  /\ tst' = Cached(tst, name, row.ts_type)
                  /\ resolve' = [seen EXCEPT ![c].pc = "done", ![c].id = row.id]
          ELSE /\ resolve' = [seen EXCEPT ![c].pc = "insert"]
               /\ UNCHANGED << tsi, tst >>
    /\ UNCHANGED << RegFrame, dbVars, issued >>

\* line 71 on a table whose name column is not UNIQUE
RegInsertNoUnique(c) ==
    /\ resolve[c].pc = "insert"
    /\ conn' = [conn EXCEPT
          !.inTx = TRUE,
          !.db.timeseries = @ \cup { Metric(NextRowId(@), resolve[c].name,
                                            resolve[c].ts_type) }]
    /\ resolve' = [resolve EXCEPT ![c].pc = "commit"]
    /\ UNCHANGED << RegFrame, disk, tsi, tst, issued >>

\* line 71: the INSERT opens a transaction; name is UNIQUE (line 34), so a row
\* of that name, committed or not, makes it fail with IntegrityError
RegInsert(c) ==
    /\ resolve[c].pc = "insert"
    /\ IF SelectByName(conn.db, resolve[c].name) # {}
       THEN /\ conn' = [conn EXCEPT !.inTx = TRUE]
            /\ resolve' = RegDone(c, "IntegrityError", 0)
       ELSE /\ conn' = [conn EXCEPT
                  !.inTx = TRUE,
                  !.db.timeseries = @ \cup { Metric(NextRowId(@), resolve[c].name,
                                                    resolve[c].ts_type) }]
            /\ resolve' = [resolve EXCEPT ![c].pc = "commit"]
    /\ UNCHANGED << RegFrame, disk, tsi, tst, issued >>

\* line 72: everything pending on the connection becomes durable
RegCommit(c) ==
    /\ resolve[c].pc = "commit"
    /\ disk' = conn.db
    /\ conn' = [conn EXCEPT !.inTx = FALSE]
    /\ resolve' = [resolve EXCEPT ![c].pc = "reselect"]
    /\ UNCHANGED << RegFrame, tsi, tst, issued >>

\* lines 73-77: the SELECT by name; the row is cached and its id returned
RegReselect(c) ==
    /\ resolve[c].pc = "reselect"
    /\ LET name == resolve[c].name
           row == CHOOSE r \in SelectByName(conn.db, name) : TRUE
       IN /\ tsi' = Cached(tsi, name, row.id)
          /\ tst' = Cached(tst, name, row.ts_type)
          /\ resolve' = RegDone(c, "none", row.id)
    /\ UNCHANGED << RegFrame, dbVars, issued >>

\* the caller has the result
RegReturn(c) ==
    /\ resolve[c].pc = "done"
    /\ resolve' = [resolve EXCEPT ![c] = NoCall]
    /\ issued' = IF resolve[c].err = "none" THEN Issue(resolve[c].name, resolve[c].id)
                 ELSE issued
    /\ UNCHANGED << RegFrame, dbVars, tsi, tst >>

NextReg ==
    \/ Start
    \/ Crash
    \/ InitCall
    \/ SetupDbOpen
    \/ SetupDbVersion
    \/ SetupDbMigrate
    \/ SetupDbCommit
    \/ InitStartThread
    \/ InitSetInitialized
    \/ ApiAttach
    \/ \E c \in Executors, name \in RegNames, ts_type \in { TS_VARIABLE, TS_EVENT } :
          RegCall(c, name, ts_type)
    \/ \E c \in Executors : RegSelect(c)
    \/ \E c \in Executors : RegInsert(c)
    \/ \E c \in Executors : RegCommit(c)
    \/ \E c \in Executors : RegReselect(c)
    \/ \E c \in Executors : RegReturn(c)

SpecReg == Init /\ [][NextReg]_vars

\* ================================================================ properties

\* ------------------------------------------------------------ migrations
\* the statements of every code version, in list order
AllStatements ==
    [i \in 1..(Len(migrations) + Len(ExtStatements)) |->
        IF i <= Len(migrations) THEN migrations[i].str
        ELSE ExtStatements[i - Len(migrations)]]

\* setup_db is past the version check of the running process
PastVersionCheck == mainPc \notin { "down", "boot", "setup_open", "setup_version" }

\* this process has executed no migration and appended no record
NothingMigrated ==
    /\ Len(execLog) = atStart.log
    /\ conn.open => conn.db.migrations = atStart.records
    /\ disk.migrations = atStart.records

\* a startup that finds the persisted version equal to the list length executes
\* nothing, appends nothing and does not fail
CurrentVersionNoOp ==
    (PastVersionCheck /\ old_ver = Len(migs)) => (NothingMigrated /\ mainPc # "failed")

\* C1: across any sequence of startups with the same or an extended migration
\* list, every migration is executed exactly once and in ascending list order
\* (the statements passed to execute are, in order, the head of the list, none
\* twice), and a startup at the current version executes no migration, appends
\* no record and does not fail.
C1_ExactlyOnceInOrder ==
    /\ Len(execLog) <= Len(AllStatements)
    /\ \A j \in 1..Len(execLog) : execLog[j] = AllStatements[j]
    /\ CurrentVersionNoOp

\* C6: a startup that finds a persisted version above the number of known
\* migrations fails with SchemaTooNew, and executes no migration and appends
\* no MigrationRecord.
C6_SchemaTooNewRefused ==
    (mainPc # "down" /\ MaxMigrationId(disk) > Len(migs)) =>
        /\ NothingMigrated
        /\ PastVersionCheck => (mainPc = "failed" /\ exitError = "SchemaTooNew")

\* a startup was refused because the database is ahead of the code
C6_Witness ==
    /\ mainPc = "failed"
    /\ exitError = "SchemaTooNew"
    /\ MaxMigrationId(disk) > Len(migs)
    /\ atStart.log > 0

\* ---------------------------------------------------------------- flushes
\* the names of the metrics that have a durable data point stamped `at`
DurableNames(at) ==
    { m.name : m \in { x \in disk.timeseries :
                         \E i \in 1..Len(disk.data) :
                            disk.data[i].tsi = x.id /\ disk.data[i].ts = at } }

\* C2: under any failure and any interleaving, including a commit issued by
\* ensure_tsi on the other thread, the durable store holds all data points of
\* one cycle's batch or none of them.
C2_BatchOrNothing == \A f \in flushes : DurableNames(f.ts) \in { {}, f.keys }

\* C3: a cycle that fails does not stop the scheduler: the thread that runs the
\* trigger loop is never ended by an exception of job.
C3_SchedulerSurvives == schedPc # "dead"

\* the scheduler is inside store_sample or has just left its loop
Flushing == schedPc \in { "store", "reset_begin" }

\* the flush in progress: its timestamp and the buffer keys it began with
CurrentFlush == CHOOSE f \in flushes : f.ts = Adapt(ts)

\* the data points the flush in progress has inserted, in insertion order
FlushRows == SubSeq(conn.db.data, CurrentFlush.base + 1, Len(conn.db.data))

\* C4: a COUNTER incremented k times in a window is flushed as k, and a GAUGE
\* set several times in a window is flushed as the value last set.
C4_FlushedValues ==
    Flushing =>
        \A i \in 1..Len(FlushRows) :
            LET n == sample[i].name
            IN /\ n \in Events => FlushRows[i].value = window[n].incs
               /\ (n \in Gauges /\ window[n].sets > 0) =>
                      FlushRows[i].value = window[n].last

\* a gauge set twice is being flushed and a counter was flushed as MaxCount before
C4_Witness ==
    /\ schedPc = "reset_begin"
    /\ \E i \in 1..Len(FlushRows) :
          /\ sample[i].name \in Gauges
          /\ window[sample[i].name].sets = 2
          /\ FlushRows[i].value = window[sample[i].name].last
    /\ \E j \in 1..Len(conn.db.data), n \in Events :
          /\ n \in DOMAIN tsi
          /\ conn.db.data[j].tsi = tsi[n]
          /\ conn.db.data[j].value = MaxCount

\* --------------------------------------------------------------- readiness
\* every migration of the list is applied and durable
AllMigrationsCommitted ==
    /\ MaxMigrationId(disk) = Len(migs)
    /\ \A i \in 1..Len(migs) : Normalize(migs[i]).items[1].str \in disk.schema

C5_State ==
    /\ reply.op \in { "getstats", "gettimeseries" } =>
          (reply.status = "NotReady" <=> ~initialized)
    /\ initialized => AllMigrationsCommitted

\* C5: a query before readiness is answered NotReady; a query that is served
\* finds every migration applied and committed; readiness, once set, stays set
\* for the rest of the process.
C5_ReadinessGate ==
    /\ []C5_State
    /\ [][(initialized /\ mainPc' # "down") => initialized']_vars

\* a query was refused while the schema was not yet migrated
C5_Witness ==
    /\ reply.op = "getstats"
    /\ reply.status = "NotReady"
    /\ ~AllMigrationsCommitted

\* ---------------------------------------------------------------- registry
\* C7: ensure_tsi always returns the same identifier for a name and leaves
\* exactly one Metric row for it in storage, whether a later call is served
\* from the cache or, after a restart, from storage.
C7_OneIdentifierPerName ==
    \A n \in Names :
        /\ Cardinality(issued[n]) <= 1
        /\ Cardinality(SelectByName(disk, n)) <= 1
        /\ issued[n] # {} => { m.id : m \in SelectByName(disk, n) } = issued[n]
        /\ conn.open => SelectByName(conn.db, n) = SelectByName(disk, n)

\* the first job of a restarted process was given, from storage, the identifier
\* an earlier process had registered
C7_Witness ==
    /\ clock = 2
    /\ count = 1
    /\ schedPc = "vars"
    /\ job_i = 2
    /\ GaugeNames[1] \in DOMAIN tsi
    /\ issued[GaugeNames[1]] = { tsi[GaugeNames[1]] }
    /\ \E f \in flushes : GaugeNames[1] \in f.keys

\* ------------------------------------------------------------- store_sample
NoTwoPointsAt(data) ==
    \A i, j \in 1..Len(data) :
        (i < j /\ data[i].tsi = data[j].tsi) => data[i].ts # data[j].ts

C9_State ==
    /\ \A i \in 1..Len(sample) : sample[i].name \notin touched => sample[i].value = 0
    /\ Flushing =>
          \A i \in 1..Len(FlushRows) :
              sample[i].name \notin touched => FlushRows[i].value = 0

\* a step of the loop of reset_sample
C9_Step ==
    (schedPc = "reset" /\ iter'.pos = iter.pos + 1) =>
        /\ Len(sample') = Len(sample)
        /\ \A i \in 1..Len(sample) : sample'[i].name = sample[i].name
        /\ sample'[iter.pos + 1].value = 0

\* C9: reset_sample leaves the key set of the buffer unchanged and assigns 0 to
\* every key, so a metric not touched since the reset holds 0 and is flushed as
\* 0, never with the value of an earlier window.
C9_ResetToZero ==
    /\ []C9_State
    /\ [][C9_Step]_vars

\* a counter flushed above 0 before is flushed as 0 after a window without events
C9_Witness ==
    /\ Flushing
    /\ \E i \in 1..Len(FlushRows) :
          /\ sample[i].name \in Events
          /\ sample[i].name \notin touched
          /\ FlushRows[i].value = 0
          /\ \E j \in 1..Len(conn.db.data) :
                /\ conn.db.data[j].tsi = FlushRows[i].tsi
                /\ conn.db.data[j].value > 0

\* ------------------------------------------------------------------ get_data
\* text, as a caller may write it, denotes the instant t
Denotes(text, t) ==
    \/ text = Adapt(DateTime(t))
    \/ /\ DateTime(t).usec = 0
       /\ text = Adapt(DateTime(t)) \o << Dot, Digit(0) >>

InstantOf(bound, default) ==
    IF bound.type = "None" THEN default
    ELSE CHOOSE t \in 0..MaxTime : Denotes(bound.text, t)

\* the stored data points of the metric called name
History(name) ==
    LET Of(r) == \E m \in conn.db.timeseries : m.name = name /\ m.id = r.tsi
    IN SelectSeq(conn.db.data, Of)

\* those of them stamped at an instant from lo to hi, both included
Between(name, lo, hi) ==
    LET In(r) == \E t \in lo..hi : r.ts = Adapt(DateTime(t))
    IN SelectSeq(History(name), In)

\* C10: a served query returns all and only the stored data points of the
\* metric with from <= ts <= to, both bounds inclusive, an omitted from being
\* the epoch and an omitted to being now; with both omitted it returns the
\* full stored history.
C10_InclusiveRange ==
    (reply.op = "getstats" /\ reply.status = "ok") =>
        /\ reply.rows = Between(reply.name, InstantOf(reply.tsfrom, 0),
                                InstantOf(reply.tsto, clock))
        /\ (reply.tsfrom.type = "None" /\ reply.tsto.type = "None") =>
               reply.rows = History(reply.name)

\* a query bounded on both sides by a whole second written with a zero fraction
\* returned the data point stamped at that second and left an earlier one out
C10_Witness ==
    /\ reply.op = "getstats"
    /\ reply.status = "ok"
    /\ reply.tsfrom.type = "str"
    /\ reply.tsto.type = "str"
    /\ Len(reply.tsfrom.text) = 4
    /\ Len(reply.rows) >= 1
    /\ Len(reply.rows) < Len(History(reply.name))
    /\ \E i \in 1..Len(reply.rows), t \in 0..MaxTime :
          /\ Denotes(reply.tsfrom.text, t)
          /\ Denotes(reply.tsto.text, t)
          /\ reply.rows[i].ts = Adapt(DateTime(t))

\* ------------------------------------------------------------------- get_tsi
\* name is neither in the cache nor in storage
Unregistered(name) == name \notin DOMAIN tsi /\ SelectByName(conn.db, name) = {}

\* a step in which a range query is answered after the readiness test
C11_Step ==
    (initialized /\ reply'.op = "getstats" /\ reply' # reply) =>
        /\ reply'.status = "UnknownMetric" <=> Unregistered(reply'.name)
        /\ Unregistered(reply'.name) =>
              /\ tsi' = tsi
              /\ tst' = tst
              /\ conn' = conn
              /\ disk' = disk
              /\ sample' = sample

\* C11: a range query (get_data -> get_tsi) for a name that is neither cached
\* nor stored fails with UnknownMetric, and on that failure no Metric row, no
\* cache entry and no buffer key is added; a name that is cached or stored does
\* not fail this way.
C11_UnknownMetric == [][C11_Step]_vars

\* a query for a name the program registers later was refused, and left the
\* cache, storage and the buffer without that name
C11_Witness ==
    /\ reply.op = "getstats"
    /\ reply.status = "UnknownMetric"
    /\ reply.name \in Names
    /\ Unregistered(reply.name)
    /\ reply.name \notin Keys(sample)
    /\ tsi # << >>

\* ------------------------------------------------------ malformed migrations
\* the positions of the entries still to apply that setup_db rejects
PendingMalformed ==
    { i \in (old_ver + 1)..Len(migs) : ~WellFormed(Normalize(migs[i])) }

SetMin(S) == CHOOSE x \in S : \A y \in S : x <= y

\* C12: when an entry still to apply is malformed, setup_db fails with
\* InvalidMigration on reaching the first such entry; neither that entry nor a
\* later one is executed, and no MigrationRecord is appended for them.
C12_InvalidMigration ==
    PastVersionCheck =>
        IF PendingMalformed = {}
        THEN exitError # "InvalidMigration"
        ELSE LET p == SetMin(PendingMalformed)
             IN /\ old_ver + mig_i <= p
                /\ Len(execLog) - atStart.log <= p - 1 - old_ver
                /\ MaxMigrationId(conn.db) <= p - 1
                /\ MaxMigrationId(disk) <= p - 1
                /\ old_ver + mig_i = p <=>
                       (mainPc = "failed" /\ exitError = "InvalidMigration")

\* setup_db executed the entries before a malformed one, failed on it and left
\* a later entry alone
C12_Witness ==
    /\ mainPc = "failed"
    /\ exitError = "InvalidMigration"
    /\ Len(execLog) > atStart.log
    /\ old_ver + mig_i < Len(migs)

\* ------------------------------------------------------------------ ts_event
\* a step taken before readiness: no step changes the buffer, the cache or the
\* rows of timeseries and data, and a step in which ts_event returns changes
\* nothing at all and reports no error
C13_Step ==
    ~initialized =>
        /\ sample' = sample
        /\ tsi' = tsi
        /\ tst' = tst
        /\ disk'.timeseries = disk.timeseries
        /\ disk'.data = disk.data
        /\ (conn.open /\ conn'.open) =>
              /\ conn'.db.timeseries = conn.db.timeseries
              /\ conn'.db.data = conn.db.data
        /\ reply'.op = "ts_event" =>
              /\ reply'.status = "ok"
              /\ conn' = conn
              /\ disk' = disk
              /\ mainPc' = mainPc

\* C13: ts_event called while the engine is not ready returns without error and
\* leaves the sample buffer, the identifier cache and storage unchanged.
C13_IgnoredBeforeReady == [][C13_Step]_vars

\* an event arrived before readiness for a counter that storage already knows
C13_Witness ==
    /\ ~initialized
    /\ reply.op = "ts_event"
    /\ reply.status = "ok"
    /\ SelectByName(disk, reply.name) # {}
    /\ sample = << >>
    /\ tsi = << >>

\* --------------------------------------------------------- shared state
RECURSIVE SumValues(_)
SumValues(rows) ==
    IF rows = << >> THEN 0 ELSE Head(rows).value + SumValues(Tail(rows))

\* the sum this process has flushed for the metric called name
FlushedSum(name) ==
    LET Mine(r) == \E m \in conn.db.timeseries : m.name = name /\ m.id = r.tsi
    IN SumValues(SelectSeq(SubSeq(conn.db.data, atStart.data + 1, Len(conn.db.data)),
                           Mine))

\* the scheduler is between two cycles or has not flushed yet in this one
BetweenFlushes == schedPc \in { "none", "wait", "job", "vars", "arm", "sleep" }

\* C14: under any interleaving of ts_event with store_sample and reset_sample,
\* no accepted increment is lost or counted twice: outside a flush, what the
\* completed cycles flushed for a counter plus what the buffer holds for it is
\* the number of increments ts_event stored.
C14_NoLostIncrement ==
    BetweenFlushes =>
        \A n \in Events : FlushedSum(n) + Get(sample, n, 0) = accepted[n]

\* C15: a query concurrent with a flush never returns a data point of a batch
\* that is not fully committed: every row a query returned is durable, together
\* with the data points of every name its batch began with.
C15_NoTornRead ==
    (reply.op = "getstats" /\ reply.status = "ok") =>
        \A i \in 1..Len(reply.rows) :
            /\ \E j \in 1..Len(disk.data) : disk.data[j] = reply.rows[i]
            /\ \A f \in flushes : f.ts = reply.rows[i].ts => DurableNames(f.ts) = f.keys

RECURSIVE NoRepeat(_)
NoRepeat(log) ==
    IF log = << >> THEN TRUE
    ELSE /\ \A j \in 1..Len(Tail(log)) : Tail(log)[j] # Head(log)
         /\ NoRepeat(Tail(log))

\* C17: every migration is applied as a unit: whenever the process is down
\* (after a failure or a crash at any point of setup_db) the migrations whose
\* schema effect is on disk are as many as the MigrationRecords on disk, and no
\* restart executes a statement a second time.
C17_AtomicMigration ==
    /\ mainPc = "down" =>
          Cardinality(disk.schema \ { MigrationsTable }) = Cardinality(disk.migrations)
    /\ NoRepeat(execLog)

\* ---------------------------------------------------------------- ensure_tsi
\* C16: a call of ensure_tsi that misses the cache for a name that has a Metric
\* row returns the stored identifier, caches it and inserts no row, whatever
\* kind is requested.
C16_StoredNameResolves ==
    \A c \in Executors :
        (resolve[c].pc = "done" /\ resolve[c].stored # 0) =>
            /\ resolve[c].err = "none"
            /\ resolve[c].id = resolve[c].stored
            /\ resolve[c].name \in DOMAIN tsi
            /\ tsi[resolve[c].name] = resolve[c].stored
            /\ Cardinality(SelectByName(conn.db, resolve[c].name)) = 1

C18_State ==
    /\ \A n \in Names :
          /\ Cardinality(SelectByName(conn.db, n)) <= 1
          /\ Cardinality(SelectByName(disk, n)) <= 1
    /\ \A n \in DOMAIN tsi : StoredId(conn.db, n) = tsi[n]

\* a Metric row on disk stays, and a cache entry keeps its value while the
\* process lives
C18_Step ==
    /\ disk.timeseries \subseteq disk'.timeseries
    /\ mainPc' # "down" => \A n \in DOMAIN tsi : n \in DOMAIN tsi' /\ tsi'[n] = tsi[n]

\* C18: in every reachable state, also when both threads are inside ensure_tsi
\* for the same unseen name, storage holds at most one Metric row per name, the
\* identifier stored for a name never changes, and every cache entry is the
\* identifier stored for its name.
C18_OneRowPerName ==
    /\ []C18_State
    /\ [][C18_Step]_vars

\* both threads called ensure_tsi for one unseen name with one kind; both found
\* no row, one inserted it and the INSERT of the other was refused
C18_Witness ==
    /\ resolve["main"].pc = "done"
    /\ resolve["sched"].pc = "done"
    /\ resolve["main"].name = resolve["sched"].name
    /\ resolve["main"].ts_type = resolve["sched"].ts_type
    /\ resolve["main"].stored = 0
    /\ resolve["sched"].stored = 0
    /\ { resolve["main"].err, resolve["sched"].err } = { "none", "IntegrityError" }
    /\ Cardinality(SelectByName(disk, resolve["main"].name)) = 1

\* ----------------------------------------------------------------- scheduler
\* the scheduler thread is inside job or past it
CycleBegun == schedPc \in { "job", "vars", "store", "reset_begin", "reset", "commit",
                           "arm", "sleep", "dead" }

C19_State ==
    /\ (CycleBegun \/ count >= 1 \/ armed) => (initialized /\ AllMigrationsCommitted)
    /\ (mainPc # "down" /\ ~armed) => /\ count <= 1
                                      /\ clock = atStart.clock
    /\ (armed \/ schedPc = "arm") => count >= 1

\* the recurring job is registered only when the first cycle has returned
C19_Step == (~armed /\ armed') => (count = 1 /\ schedPc = "arm" /\ clock = atStart.clock)

\* C19: the scheduler runs no cycle before readiness is set (so none before the
\* migrations are committed); once readiness is set it runs one cycle at once,
\* without an interval passing, and only then is the recurring job registered.
C19_FirstCycle ==
    /\ []C19_State
    /\ [][C19_Step]_vars
    /\ (initialized ~> (count >= 1 \/ ~initialized))

\* the first cycle has run in the instant the process started, and the
\* recurring job is registered
C19_Witness ==
    /\ armed
    /\ count = 1
    /\ schedPc = "sleep"
    /\ clock = atStart.clock
    /\ \E f \in flushes : f.ts = Adapt(DateTime(clock))

\* ------------------------------------------------ registered before buffered
\* the row that storage holds under the identifier cached for a name
Registered(db, name) ==
    /\ name \in DOMAIN tsi
    /\ \E r \in db.timeseries : r.name = name /\ r.id = tsi[name]

C20_State ==
    \A name \in Keys(sample) : /\ Registered(conn.db, name)
                                /\ Registered(disk, name)

\* the store loop stops early only on a dict that changed size
C20_Step ==
    (schedPc = "store" /\ schedPc' = "dead") => Len(sample) # iter.used

\* C20: every key of the sample buffer has an identifier in the cache and a
\* Metric row in storage (on the connection and committed), so get_tsi inside
\* store_sample never raises UnknownMetric: the flush ends early only when the
\* iterator finds the dict resized.
C20_BufferedIsRegistered ==
    /\ []C20_State
    /\ [][C20_Step]_vars

\* a flush that looked up every gauge and the event, each one found
C20_Witness ==
    /\ schedPc = "store"
    /\ Keys(sample) = Names
    /\ iter.used = Len(sample)
    /\ iter.pos = Len(sample)
    /\ Len(conn.db.data) - CurrentFlush.base = Len(sample)

====
